---------------------------- MODULE Spec2Model ----------------------------
(***************************************************************************)
(* Mail manager: a polling pass over the unseen emails of a mailbox        *)
(* (gmail.py) hands each accepted email body to a decision loop            *)
(* (Mail_Manager.py: model_call -> should_continue -> tools -> END) whose  *)
(* four tools read, create, edit and remove tasks of a remote task list.   *)
(*                                                                         *)
(* Two specifications share the same state and the same tool definitions:  *)
(*   Spec      the polling pass, the decision loop and the tools, the      *)
(*             model proposing calls from a small vocabulary (LoopCalls);  *)
(*   ToolSpec  the four tools applied in any order to the remote list,     *)
(*             with the full vocabulary of titles and timestamps.          *)
(***************************************************************************)
EXTENDS Integers, Sequences, FiniteSets

VARIABLES
    store,      \* the remote default task list, in the order the remote lists it
    qmode,      \* how the remote interprets list(q=...): "exact" or "substring"
    lastCall,   \* the most recent tool invocation (arguments, remote faults, result)
    prevCall,   \* the invocation before it, when both are create_task calls
                \* with the same normalized title
    inbox,      \* the UNSEEN messages of the polling pass
    pos,        \* index of the message the for-loop of the pass is at
    pass,       \* "start" | "loop" | "returned" | "closed" | "crashed" | "tools"
    seen,       \* indices flagged \Seen
    handed,     \* indices whose body was handed to analyse_email_process_task
    pc,         \* "idle" | "AWAITING_MODEL" | "EXECUTING_TOOLS" | "DONE"
    messages,   \* AgentState.messages of the current (or last) run
    pending,    \* index of the next tool call of the last AI message to execute
    raised,     \* the exception that left the decision loop, "none" if none
    result,     \* what analyse_email_process_task returned last
    modelCalls, \* model invocations in the current run
    runCalls,   \* tool invocations in the current run
    runWrites   \* insert/update/delete calls issued in the current run

vars == << store, qmode, lastCall, prevCall, inbox, pos, pass, seen, handed,
           pc, messages, pending, raised, result, modelCalls, runCalls, runWrites >>

toolVars == << store, lastCall, prevCall >>
loopVars == << inbox, pos, pass, seen, handed, pc, messages, pending, raised,
               result, modelCalls, runCalls, runWrites >>

----------------------------------------------------------------------------
(* Bounds *)

MaxTasks == 2      \* tasks the remote list holds at most
MaxEmails == 2     \* unseen messages of one polling pass at most
MaxCalls == 2      \* tool calls one model response carries at most

(* Program constants *)

ReadLimit == 10    \* read_tasks: maxResults=10
ScanLimit == 100   \* create_task: maxResults=100

MinutesPerDay == 24 * 60

----------------------------------------------------------------------------
(* Strings: a title is a sequence of characters *)

Min(a, b) == IF a < b THEN a ELSE b

\* str.lower() on one character
LowerChar(c) == IF c = "A" THEN "a" ELSE IF c = "B" THEN "b" ELSE c

\* str.lower()
Lower(s) == [i \in 1..Len(s) |-> LowerChar(s[i])]

RECURSIVE LStrip(_)
LStrip(s) == IF s # << >> /\ Head(s) = " " THEN LStrip(Tail(s)) ELSE s

RECURSIVE RStrip(_)
RStrip(s) ==
    IF s # << >> /\ s[Len(s)] = " " THEN RStrip(SubSeq(s, 1, Len(s) - 1)) ELSE s

\* str.strip()
Strip(s) == RStrip(LStrip(s))

\* title.strip().lower(), the key create_task compares
Normalize(s) == Lower(Strip(s))

\* q in t, as substring
Contains(t, q) ==
    \E i \in 0..(Len(t) - Len(q)) : SubSeq(t, i + 1, i + Len(q)) = q

----------------------------------------------------------------------------
(* Timestamps.  An ISO-8601 string is modelled by what fromisoformat reads *)
(* from it: whether it parses, its day number, its minute of the day, and  *)
(* whether it carries a UTC offset (in minutes).                           *)

Stamp(ok, day, min, aware, off) ==
    [ok |-> ok, day |-> day, min |-> min, aware |-> aware, off |-> off]

NoStamp == Stamp(FALSE, 0, 0, FALSE, 0)

\* a format_due_date that stamps UTC on the fields without converting
format_due_date_keep_fields(ts) == Stamp(TRUE, ts.day, ts.min, TRUE, 0)

\* format_due_date: assume UTC when naive, convert to UTC, serialise.
\* Applied only to a timestamp that parses (fromisoformat raises otherwise).
format_due_date(ts) ==
    LET dt == IF ts.aware THEN ts ELSE [ts EXCEPT !.aware = TRUE, !.off = 0]
        total == dt.day * MinutesPerDay + dt.min - dt.off
    IN  Stamp(TRUE, total \div MinutesPerDay, total % MinutesPerDay, TRUE, 0)

----------------------------------------------------------------------------
(* Tasks and the remote list *)

Task(id, title, notes, due) ==
    [id |-> id, title |-> title, notes |-> notes, due |-> due,
     status |-> "needsAction"]

Ids(st) == {st[i].id : i \in 1..Len(st)}

\* the id the remote assigns to an inserted task
FreshId(st) == CHOOSE n \in 1..(Len(st) + 1) : n \notin Ids(st)

InsertAt(st, p, t) == SubSeq(st, 1, p - 1) \o << t >> \o SubSeq(st, p, Len(st))

RECURSIVE SelectSeq2(_, _)
\* tasks of st matching query q, in list order
SelectSeq2(st, q) ==
    IF st = << >> THEN << >>
    ELSE LET t == Head(st)
             hit == IF qmode = "exact" THEN t.title = q
                    ELSE Contains(Lower(t.title), Lower(q))
         IN  (IF hit THEN << t >> ELSE << >>) \o SelectSeq2(Tail(st), q)

\* a list call that reads a list holding nothing
ListTasks_none(st, n) == << >>

\* tasks().list(tasklist="@default", maxResults=n).execute().get("items", [])
ListTasks(st, n) == SubSeq(st, 1, Min(n, Len(st)))

\* tasks().list(tasklist="@default", q=task_name).execute().get("items", [])
QueryTasks(st, q) == SelectSeq2(st, q)

\* tasks().update(task=id, body=body): the task with that id is replaced
UpdateTask(st, id, body) ==
    [i \in 1..Len(st) |-> IF st[i].id = id THEN body ELSE st[i]]

RECURSIVE DeleteTask(_, _)
\* tasks().delete(task=id)
DeleteTask(st, id) ==
    IF st = << >> THEN << >>
    ELSE IF Head(st).id = id THEN Tail(st)
    ELSE << Head(st) >> \o DeleteTask(Tail(st), id)

----------------------------------------------------------------------------
(* Tool results.  A returned string is modelled by its template (kind),    *)
(* the task name and exception text interpolated into it, and, for         *)
(* read_tasks, the "title - status" lines joined into it.                  *)

R(kind, name, err, items) ==
    [kind |-> kind, name |-> name, err |-> err, items |-> items]

NoResult == R("none", << >>, "none", << >>)

ErrorKinds == {"error_read", "error_create", "error_edit", "error_remove"}

WriteOps == {"insert", "update", "delete"}

\* What one tool invocation did: the list afterwards, the string returned, the
\* remote calls issued, the remote call that failed, the exception that left the
\* tool, how many tasks the lookup returned, the id acted upon, the body sent.
Out(st, res, ops, failed, escaped, nfound, target, sent) ==
    [store |-> st, result |-> res, ops |-> ops, failed |-> failed,
     escaped |-> escaped, nfound |-> nfound, target |-> target, sent |-> sent]

\* an except clause that lets the ValueError of fromisoformat through
Catches_remote_only(ex) == ex # "timestamp"

\* except Exception as ex: every exception raised in a tool body is caught
Catches(ex) == TRUE

\* an exception ex raised in the try block of a tool, after the calls ops
Thrown(st, kind, name, ex, ops, failed, nfound) ==
    IF Catches(ex)
    THEN Out(st, R(kind, name, ex, << >>), ops, failed, "none", nfound, 0, << >>)
    ELSE Out(st, NoResult, ops, failed, "ToolError", nfound, 0, << >>)

\* a duplicate test that compares the raw titles
IsDuplicate_raw(task, task_name) == task.title = task_name

\* task.get("title", "").strip().lower() == task_name.strip().lower()
IsDuplicate(task, task_name) == Normalize(task.title) = Normalize(task_name)

\* a lookup test that never reports a miss
LookupMissed_never(tasks) == FALSE

\* if not tasks:
LookupMissed(tasks) == tasks = << >>

\* a choice of the last task the lookup returned
FirstMatch_last(tasks) == tasks[Len(tasks)]

\* tasks[0]
FirstMatch(tasks) == tasks[1]

\* f"{status}: {description}"
Notes(status, description) == << status, ": ", description >>

read_tasks(st, fail) ==
    IF fail = "auth"
    THEN Thrown(st, "error_read", << >>, "auth", << "auth" >>, "auth", 0)
    ELSE IF fail = "list"
    THEN Thrown(st, "error_read", << >>, "list", << "auth", "list" >>, "list", 0)
    ELSE LET items == ListTasks(st, ReadLimit)
             lines == [i \in 1..Len(items) |-> << items[i].title, items[i].status >>]
         IN  Out(st,
                 IF items = << >> THEN R("no_tasks", << >>, "none", << >>)
                 ELSE R("tasks", << >>, "none", lines),
                 << "auth", "list" >>, "none", "none", Len(items), 0, << >>)

create_task(st, task_name, status, description, timestamp, fail, at) ==
    IF fail = "auth"
    THEN Thrown(st, "error_create", task_name, "auth", << "auth" >>, "auth", 0)
    ELSE IF ~timestamp.ok
    THEN Thrown(st, "error_create", task_name, "timestamp", << "auth" >>, "none", 0)
    ELSE IF fail = "list"
    THEN Thrown(st, "error_create", task_name, "list", << "auth", "list" >>, "list", 0)
    ELSE
    LET due_time == format_due_date(timestamp)
        existing_tasks == ListTasks(st, ScanLimit)
        n == Len(existing_tasks)
    IN  IF \E i \in 1..n : IsDuplicate(existing_tasks[i], task_name)
        THEN Out(st, R("exists", task_name, "none", << >>),
                 << "auth", "list" >>, "none", "none", n, 0, << >>)
        ELSE IF fail = "write"
        THEN Thrown(st, "error_create", task_name, "write",
                    << "auth", "list", "insert" >>, "insert", n)
        ELSE LET id == FreshId(st)
                 task_body == Task(id, task_name, Notes(status, description), due_time)
             IN  Out(InsertAt(st, at, task_body),
                     R("created", task_name, "none", << >>),
                     << "auth", "list", "insert" >>, "none", "none", n, id,
                     << task_body >>)

edit_task(st, task_name, new_status, new_description, new_timestamp, fail) ==
    IF fail = "auth"
    THEN Thrown(st, "error_edit", task_name, "auth", << "auth" >>, "auth", 0)
    ELSE IF fail = "list"
    THEN Thrown(st, "error_edit", task_name, "list", << "auth", "list" >>, "list", 0)
    ELSE
    LET tasks == QueryTasks(st, task_name)
        n == Len(tasks)
    IN  IF LookupMissed(tasks)
        THEN Out(st, R("not_found", task_name, "none", << >>),
                 << "auth", "list" >>, "none", "none", n, 0, << >>)
        ELSE IF tasks = << >>
        THEN Thrown(st, "error_edit", task_name, "index", << "auth", "list" >>, "none", n)
        ELSE IF ~new_timestamp.ok
        THEN Thrown(st, "error_edit", task_name, "timestamp", << "auth", "list" >>,
                    "none", n)
        ELSE IF fail = "write"
        THEN Thrown(st, "error_edit", task_name, "write",
                    << "auth", "list", "update" >>, "update", n)
        ELSE LET task_obj == FirstMatch(tasks)
                 due_time == format_due_date(new_timestamp)
                 body == [task_obj EXCEPT !.title = task_name,
                                          !.notes = Notes(new_status, new_description),
                                          !.due = due_time]
             IN  Out(UpdateTask(st, task_obj.id, body),
                     R("updated", task_name, "none", << >>),
                     << "auth", "list", "update" >>, "none", "none", n,
                     task_obj.id, << body >>)

remove_task(st, task_name, fail) ==
    IF fail = "auth"
    THEN Thrown(st, "error_remove", task_name, "auth", << "auth" >>, "auth", 0)
    ELSE IF fail = "list"
    THEN Thrown(st, "error_remove", task_name, "list", << "auth", "list" >>, "list", 0)
    ELSE
    LET tasks == QueryTasks(st, task_name)
        n == Len(tasks)
    IN  IF LookupMissed(tasks)
        THEN Out(st, R("not_found", task_name, "none", << >>),
                 << "auth", "list" >>, "none", "none", n, 0, << >>)
        ELSE IF tasks = << >>
        THEN Thrown(st, "error_remove", task_name, "index", << "auth", "list" >>,
                    "none", n)
        ELSE IF fail = "write"
        THEN Thrown(st, "error_remove", task_name, "write",
                    << "auth", "list", "delete" >>, "delete", n)
        ELSE Out(DeleteTask(st, FirstMatch(tasks).id),
                 R("removed", task_name, "none", << >>),
                 << "auth", "list", "delete" >>, "none", "none", n,
                 FirstMatch(tasks).id, << >>)

----------------------------------------------------------------------------
(* Vocabulary *)

TitleA == << "a" >>
TitleSpA == << " ", "A" >>      \* normalizes to TitleA
TitleAB == << "a", "b" >>       \* contains TitleA
Titles == {TitleA, TitleSpA, TitleAB}

StampNaive == Stamp(TRUE, 1, 22 * 60 + 30, FALSE, 0)   \* day 1 22:30
StampEast == Stamp(TRUE, 2, 4 * 60, TRUE, 330)         \* day 2 04:00+05:30
StampWest == Stamp(TRUE, 0, 20 * 60, TRUE, 0 - 300)    \* day 0 20:00-05:00
StampBad == NoStamp                                    \* not ISO-8601
Stamps == {StampNaive, StampEast, StampWest, StampBad}

OldNotes == << "pending", ": ", "old" >>
OldDue == Stamp(TRUE, 1, 22 * 60 + 30, TRUE, 0)

\* where a remote call can fail: nowhere, get_tasks_service, list, the write
Faults == {"none", "auth", "list", "write"}
ReadFaults == {"none", "auth", "list"}

Call(tool, name, ts) ==
    [tool |-> tool, name |-> name, status |-> "done", description |-> "d", ts |-> ts]

ToolNames == {"read_tasks", "create_task", "edit_task", "remove_task"}

\* the invocations ToolSpec draws from: every title and every kind of timestamp
\* reaches create_task and edit_task, every title reaches remove_task
ReadCalls == {Call("read_tasks", << >>, NoStamp)}
CreateCalls ==
    {Call("create_task", TitleA, StampNaive), Call("create_task", TitleSpA, StampEast),
     Call("create_task", TitleAB, StampWest), Call("create_task", TitleSpA, StampBad)}
EditCalls ==
    {Call("edit_task", TitleA, StampWest), Call("edit_task", TitleSpA, StampNaive),
     Call("edit_task", TitleAB, StampEast), Call("edit_task", TitleAB, StampBad)}
RemoveCalls == {Call("remove_task", t, NoStamp) : t \in Titles}

\* where the remote may place an inserted task
Places(st, fail) == IF fail = "none" THEN 1..(Len(st) + 1) ELSE {1}

\* tools = [read_tasks, create_task, edit_task, remove_task], dispatched by name
Invoke(st, c, fail, at) ==
    CASE c.tool = "read_tasks" -> read_tasks(st, fail)
      [] c.tool = "create_task" ->
            create_task(st, c.name, c.status, c.description, c.ts, fail, at)
      [] c.tool = "edit_task" ->
            edit_task(st, c.name, c.status, c.description, c.ts, fail)
      [] c.tool = "remove_task" -> remove_task(st, c.name, fail)

\* stored tasks whose normalized title is that of name
SameTitle(st, name) ==
    {i \in 1..Len(st) : Normalize(st[i].title) = Normalize(name)}

NoCall ==
    [tool |-> "none", name |-> << >>, ts |-> NoStamp,
     result |-> NoResult, ops |-> << >>, failed |-> "none", escaped |-> "none",
     nfound |-> 0, target |-> 0, sent |-> << >>, nsame |-> 0]

NoPrev == [tool |-> "none", name |-> << >>, kind |-> "none", nsame |-> 0]

\* what is remembered of invocation c when invocation d follows it
Summary(c, d) ==
    IF /\ c.tool = "create_task" /\ d.tool = "create_task"
       /\ Normalize(c.name) = Normalize(d.name)
    THEN [tool |-> c.tool, name |-> c.name, kind |-> c.result.kind,
          nsame |-> c.nsame]
    ELSE NoPrev

\* one tool invocation on the remote list
RunTool(c, fail, at) ==
    \E out \in {Invoke(store, c, fail, at)} :
        /\ Len(out.store) <= MaxTasks
        /\ store' = out.store
        /\ prevCall' = Summary(lastCall, c)
        /\ lastCall' = [tool |-> c.tool, name |-> c.name, ts |-> c.ts,
                        result |-> out.result, ops |-> out.ops,
                        failed |-> out.failed, escaped |-> out.escaped,
                        nfound |-> out.nfound, target |-> out.target,
                        sent |-> out.sent,
                        nsame |-> Cardinality(SameTitle(store, c.name))]

----------------------------------------------------------------------------
(* ToolSpec: the four tools applied in any order *)

RECURSIVE SeqsUpTo(_, _)
\* sequences over S of length at most n
SeqsUpTo(S, n) ==
    IF n = 0 THEN {<< >>}
    ELSE LET shorter == SeqsUpTo(S, n - 1)
         IN  shorter \cup {Append(q, x) : q \in shorter, x \in S}

\* the remote list before the program first touches it
InitStores ==
    {[i \in 1..Len(ts) |-> Task(i, ts[i], OldNotes, OldDue)] :
        ts \in SeqsUpTo(Titles, MaxTasks)}

\* analyse_email_process_task has not returned
NoReturn == [final_response |-> NoResult, execution_complete |-> FALSE]

IdleLoop ==
    /\ inbox = << >>
    /\ pos = 0
    /\ seen = {}
    /\ handed = {}
    /\ pc = "idle"
    /\ messages = << >>
    /\ pending = 0
    /\ raised = "none"
    /\ result = NoReturn
    /\ modelCalls = 0
    /\ runCalls = 0
    /\ runWrites = 0

ToolInit ==
    /\ store \in InitStores
    /\ qmode \in {"exact", "substring"}
    /\ lastCall = NoCall
    /\ prevCall = NoPrev
    /\ pass = "tools"
    /\ IdleLoop

CallRead ==
    /\ pass = "tools"
    /\ \E c \in ReadCalls, fail \in ReadFaults : RunTool(c, fail, 1)
    /\ UNCHANGED << qmode, loopVars >>

CallCreate ==
    /\ pass = "tools"
    /\ \E c \in CreateCalls, fail \in Faults :
          \E at \in Places(store, fail) : RunTool(c, fail, at)
    /\ UNCHANGED << qmode, loopVars >>

CallEdit ==
    /\ pass = "tools"
    /\ \E c \in EditCalls, fail \in Faults : RunTool(c, fail, 1)
    /\ UNCHANGED << qmode, loopVars >>

CallRemove ==
    /\ pass = "tools"
    /\ \E c \in RemoveCalls, fail \in Faults : RunTool(c, fail, 1)
    /\ UNCHANGED << qmode, loopVars >>

ToolNext == CallRead \/ CallCreate \/ CallEdit \/ CallRemove

ToolSpec == ToolInit /\ [][ToolNext]_vars

----------------------------------------------------------------------------
(* Spec: the polling pass and the decision loop *)

\* the calls the model proposes; the last names no registered tool
LoopCalls ==
    {Call("read_tasks", << >>, NoStamp),
     Call("create_task", TitleA, StampNaive),
     Call("create_task", TitleSpA, StampBad),
     Call("remove_task", TitleA, NoStamp),
     Call("no_such_tool", << >>, NoStamp)}

Msg(role, content, tool_calls, tool_call_id) ==
    [role |-> role, content |-> content, tool_calls |-> tool_calls,
     tool_call_id |-> tool_call_id]

\* ("user", f"Please analyze this email and manage tasks accordingly:\n\n{email}")
UserMsg == Msg("user", R("email", << >>, "none", << >>), << >>, 0)

\* the content of a model response: empty text or some text
Contents == {R("empty", << >>, "none", << >>), R("text", << >>, "none", << >>)}

\* a model response carrying the calls cs, each under its own id
AIMsg(content, cs) ==
    Msg("ai", content, [i \in 1..Len(cs) |-> [id |-> i, call |-> cs[i]]], 0)

ToolMsg(content, id) == Msg("tool", content, << >>, id)

\* a conditional edge that always ends the run
should_continue_end(msgs) == "end"

should_continue(msgs) ==
    LET last_message == msgs[Len(msgs)]
    IN  IF last_message.tool_calls = << >> THEN "end" ELSE "continue"

\* an edge from the tools node back to the model
AfterTools_loop == "mail_agent"

\* graph.add_edge("tools", END)
AfterTools == "END"

\* messages[-1].content if messages else "No response generated"
FinalResponse(msgs) ==
    IF msgs # << >> THEN msgs[Len(msgs)].content
    ELSE R("text", << >>, "none", << >>)

\* the tool calls of the model response the tools node is executing
PendingCalls == messages[Len(messages) - (pending - 1)].tool_calls

\* the remote list of the pass: empty or holding one task
LoopStores == {<< >>, << Task(1, TitleAB, OldNotes, OldDue) >>}

Init ==
    /\ store \in LoopStores
    /\ qmode \in {"exact", "substring"}
    /\ lastCall = NoCall
    /\ prevCall = NoPrev
    /\ inbox \in SeqsUpTo(BOOLEAN, MaxEmails)
    /\ pos = 0
    /\ pass = "start"
    /\ seen = {}
    /\ handed = {}
    /\ pc = "idle"
    /\ messages = << >>
    /\ pending = 0
    /\ raised = "none"
    /\ result = NoReturn
    /\ modelCalls = 0
    /\ runCalls = 0
    /\ runWrites = 0

\* fetch_and_process_emails: login, select, search UNSEEN
Search ==
    /\ pass = "start"
    /\ \E ok \in BOOLEAN :
          IF ~ok \/ inbox = << >>
          THEN pass' = "returned" /\ pos' = pos
          ELSE pass' = "loop" /\ pos' = 1
    /\ UNCHANGED << toolVars, qmode, inbox, seen, handed, pc, messages, pending,
                    raised, result, modelCalls, runCalls, runWrites >>

\* the sender filter rejects the message: continue
SkipMessage ==
    /\ pass = "loop" /\ pc = "idle"
    /\ pos <= Len(inbox) /\ ~inbox[pos]
    /\ pos' = pos + 1
    /\ UNCHANGED << toolVars, qmode, inbox, pass, seen, handed, pc, messages,
                    pending, raised, result, modelCalls, runCalls, runWrites >>

\* the body is extracted and handed to analyse_email_process_task, which
\* streams the graph from the user message
HandOver ==
    /\ pass = "loop" /\ pc = "idle"
    /\ pos <= Len(inbox) /\ inbox[pos]
    /\ handed' = handed \cup {pos}
    /\ messages' = << UserMsg >>
    /\ pc' = "AWAITING_MODEL"
    /\ pending' = 0
    /\ result' = NoReturn
    /\ modelCalls' = 0 /\ runCalls' = 0 /\ runWrites' = 0
    /\ UNCHANGED << toolVars, qmode, inbox, pos, pass, seen, raised >>

\* an exception leaves the graph, analyse_email_process_task and the pass
Crash(ex) ==
    /\ raised' = ex
    /\ pc' = "ABORTED"
    /\ pass' = "crashed"

\* node mail_agent, then the conditional edge
model_call ==
    /\ pc = "AWAITING_MODEL"
    /\ \E content \in Contents, cs \in SeqsUpTo(LoopCalls, MaxCalls) :
          messages' = Append(messages, AIMsg(content, cs))
    /\ modelCalls' = modelCalls + 1
    /\ pc' = IF should_continue(messages') = "end" THEN "DONE" ELSE "EXECUTING_TOOLS"
    /\ pending' = 1
    /\ UNCHANGED << toolVars, qmode, inbox, pos, pass, seen, handed, raised,
                    result, runCalls, runWrites >>

\* model.invoke raises (quota, network, malformed response)
model_call_raises ==
    /\ pc = "AWAITING_MODEL"
    /\ Crash("ModelError")
    /\ UNCHANGED << toolVars, qmode, inbox, pos, seen, handed, messages, pending,
                    result, modelCalls, runCalls, runWrites >>

\* after the call numbered pending: the next call, or the edge out of the node
Advance ==
    /\ pending' = pending + 1
    /\ pc' = IF pending < Len(PendingCalls) THEN "EXECUTING_TOOLS"
             ELSE IF AfterTools = "END" THEN "DONE" ELSE "AWAITING_MODEL"

\* node tools: the next requested call is run and its result appended (the
\* requested calls are run one after the other, in the order requested)
tools_run ==
    /\ pc = "EXECUTING_TOOLS"
    /\ LET tc == PendingCalls[pending]
       IN  /\ tc.call.tool \in ToolNames
           /\ \E fail \in Faults : \E at \in Places(store, fail) :
                 RunTool(tc.call, fail, at)
           /\ IF lastCall'.escaped = "none"
              THEN /\ messages' = Append(messages, ToolMsg(lastCall'.result, tc.id))
                   /\ Advance
                   /\ UNCHANGED << raised, pass >>
              ELSE /\ Crash(lastCall'.escaped)
                   /\ UNCHANGED << messages, pending >>
    /\ runCalls' = runCalls + 1
    /\ runWrites' = runWrites +
          Cardinality({i \in 1..Len(lastCall'.ops) : lastCall'.ops[i] \in WriteOps})
    /\ UNCHANGED << qmode, inbox, pos, seen, handed, result, modelCalls >>

\* node tools: the requested name is no registered tool, the run is aborted
tools_unknown_raises ==
    /\ pc = "EXECUTING_TOOLS"
    /\ PendingCalls[pending].call.tool \notin ToolNames
    /\ Crash("ConfigError")
    /\ UNCHANGED << toolVars, qmode, inbox, pos, seen, handed, messages, pending,
                    result, modelCalls, runCalls, runWrites >>

\* the stream is exhausted: the result is returned, printed, the message flagged
Finish ==
    /\ pc = "DONE"
    /\ result' = [final_response |-> FinalResponse(messages),
                  execution_complete |-> TRUE]
    /\ seen' = seen \cup {pos}
    /\ pos' = pos + 1
    /\ pc' = "idle"
    /\ UNCHANGED << toolVars, qmode, inbox, pass, handed, messages, pending,
                    raised, modelCalls, runCalls, runWrites >>

\* mail.close(); mail.logout()
Close ==
    /\ pass = "loop" /\ pc = "idle"
    /\ pos > Len(inbox)
    /\ pass' = "closed"
    /\ UNCHANGED << toolVars, qmode, inbox, pos, seen, handed, pc, messages,
                    pending, raised, result, modelCalls, runCalls, runWrites >>

Next ==
    \/ Search
    \/ SkipMessage
    \/ HandOver
    \/ model_call
    \/ model_call_raises
    \/ tools_run
    \/ tools_unknown_raises
    \/ Finish
    \/ Close

Spec == Init /\ [][Next]_vars

----------------------------------------------------------------------------
(* Properties *)

\* analyse_email_process_task has returned and messages is its all_messages
Returned == pc = "idle" /\ result.execution_complete

\* no two stored tasks share a normalized title
NoDup(st) ==
    \A i, j \in 1..Len(st) : i # j => Normalize(st[i].title) # Normalize(st[j].title)

\* the last two invocations are create_task calls with equal normalized titles
TwoCreates ==
    /\ prevCall.tool = "create_task"
    /\ lastCall.tool = "create_task"
    /\ Normalize(prevCall.name) = Normalize(lastCall.name)

Answers(i, id) ==
    {j \in (i + 1)..Len(messages) :
        messages[j].role = "tool" /\ messages[j].tool_call_id = id}

\* C2: whenever the run is DONE (or has returned), and whenever the model is
\* about to be invoked, every tool call requested by a model response has
\* exactly one tool-result message after it.
C2_Resolved ==
    (pc \in {"DONE", "AWAITING_MODEL"} \/ Returned) =>
        \A i \in 1..Len(messages) :
            \A k \in 1..Len(messages[i].tool_calls) :
                Cardinality(Answers(i, messages[i].tool_calls[k].id)) = 1

\* a run DONE after the model requested MaxCalls calls
C2_Witness ==
    /\ pc = "DONE"
    /\ Len(messages) >= 2
    /\ Len(messages[2].tool_calls) = MaxCalls

\* the lookup of the invocation returned (it did not fail)
LookupReturned(c) == Len(c.ops) >= 2 /\ c.failed # "list"

\* C3: an edit_task or remove_task whose lookup returns no task answers
\* "not found", issues no update or delete, and leaves the list unchanged.
C3_NotFoundFrame ==
    [][ ( /\ lastCall'.tool \in {"edit_task", "remove_task"}
          /\ LookupReturned(lastCall')
          /\ lastCall'.nfound = 0 )
        =>  /\ store' = store
            /\ lastCall'.result = R("not_found", lastCall'.name, "none", << >>)
            /\ \A i \in 1..Len(lastCall'.ops) : lastCall'.ops[i] \notin WriteOps
            /\ lastCall'.sent = << >> ]_vars

\* an edit_task that found nothing in a list that is not empty
C3_Witness ==
    /\ lastCall.tool = "edit_task"
    /\ LookupReturned(lastCall)
    /\ lastCall.nfound = 0
    /\ lastCall.result.kind = "not_found"
    /\ store # << >>

\* something failed inside the invocation: a remote call, or the timestamp
Faulted(c) ==
    \/ c.failed # "none"
    \/ c.tool = "create_task" /\ ~c.ts.ok
    \/ c.tool = "edit_task" /\ ~c.ts.ok /\ c.nfound > 0

ErrorKindOf(tool) ==
    CASE tool = "read_tasks" -> "error_read"
      [] tool = "create_task" -> "error_create"
      [] tool = "edit_task" -> "error_edit"
      [] tool = "remove_task" -> "error_remove"

C5_Isolation ==
    pass \in {"closed", "crashed"} =>
        \A i \in 1..Len(inbox) : inbox[i] => i \in handed

\* C6 as stated: a run whose model response carries no tool calls returns
\* with no tool executed, no write issued, and final_response that response's
\* content, which is not empty.
C6_NoAction ==
    (Returned /\ messages[2].tool_calls = << >>) =>
        /\ runCalls = 0
        /\ runWrites = 0
        /\ result.final_response = messages[2].content
        /\ result.final_response.kind # "empty"

\* C7: the model is invoked at most once per run; a run that is DONE after
\* the model requested calls has invoked it once, has executed every
\* requested call in order, and ends with the last call's result, which is
\* the final_response returned.
C7_SinglePass ==
    /\ modelCalls <= 1
    /\ ((pc = "DONE" \/ Returned) /\ messages[2].tool_calls # << >>) =>
          /\ modelCalls = 1
          /\ runCalls = Len(messages[2].tool_calls)
          /\ Len(messages) = 2 + runCalls
          /\ \A k \in 1..runCalls :
                /\ messages[2 + k].role = "tool"
                /\ messages[2 + k].tool_call_id = messages[2].tool_calls[k].id
          /\ messages[Len(messages)].content = lastCall.result
          /\ Returned => result.final_response = lastCall.result

\* a returned run of two calls whose final_response is the second's result
C7_Witness ==
    /\ Returned
    /\ runCalls = 2
    /\ messages[2].content.kind = "text"
    /\ result.final_response.kind = "created"

\* the instant a parsed timestamp denotes, in minutes, naive read as UTC
Instant(ts) == ts.day * 24 * 60 + ts.min - (IF ts.aware THEN ts.off ELSE 0)

\* C8: the due value create_task or edit_task sends to the list is a UTC
\* timestamp denoting the instant of the timestamp passed: unchanged date and
\* time for a timestamp without offset, date-time minus the offset otherwise.
C8_DueUtc ==
    lastCall.sent # << >> =>
        LET d == lastCall.sent[1].due
            t == lastCall.ts
        IN  /\ t.ok /\ d.ok
            /\ d.aware /\ d.off = 0
            /\ d.min \in 0..(24 * 60 - 1)
            /\ Instant(d) = Instant(t)
            /\ ~t.aware => (d.day = t.day /\ d.min = t.min)
            /\ \E i \in 1..Len(store) : store[i] = lastCall.sent[1]

\* an edit_task whose timestamp at offset -05:00 rolled over to the next day
C8_Witness ==
    /\ lastCall.tool = "edit_task"
    /\ lastCall.ts = StampWest
    /\ lastCall.sent # << >>
    /\ lastCall.sent[1].due = Stamp(TRUE, 1, 60, TRUE, 0)

\* st without its k-th task
Without(st, k) == SubSeq(st, 1, k - 1) \o SubSeq(st, k + 1, Len(st))

\* C9: a successful edit_task or remove_task whose lookup returned several
\* tasks acts on the first returned only: edit_task rewrites its title, notes
\* and due and keeps its id, remove_task deletes it; every other task is as
\* it was.
C9_FirstOnly ==
    [][ ( /\ lastCall'.tool \in {"edit_task", "remove_task"}
          /\ lastCall'.nfound >= 2
          /\ lastCall'.result.kind \in {"updated", "removed"} )
        =>  LET first == QueryTasks(store, lastCall'.name)[1]
                k == CHOOSE i \in 1..Len(store) : store[i].id = first.id
            IN  /\ lastCall'.target = first.id
                /\ IF lastCall'.tool = "edit_task"
                   THEN /\ Len(store') = Len(store)
                        /\ \A i \in 1..Len(store) : i # k => store'[i] = store[i]
                        /\ store'[k].id = first.id
                        /\ store'[k].title = lastCall'.name
                        /\ store'[k].notes = Notes("done", "d")
                        /\ store'[k].due = lastCall'.sent[1].due
                        /\ store'[k].status = first.status
                   ELSE store' = Without(store, k) ]_vars

\* an edit_task that updated one of two tasks its lookup returned
C9_Witness ==
    /\ lastCall.tool = "edit_task"
    /\ lastCall.nfound >= 2
    /\ lastCall.result.kind = "updated"
    /\ \E i \in 1..Len(store) : store[i].notes = OldNotes

Renames ==
    /\ lastCall'.tool = "edit_task"
    /\ lastCall'.result.kind = "updated"
    /\ \E i \in 1..Len(store) :
          /\ store[i].id = lastCall'.target
          /\ Normalize(store[i].title) # Normalize(lastCall'.name)

=============================================================================
